---- MODULE Spec2Model ----
(***************************************************************************)
(* The Pulumi program src/__main__.py as a state machine: one action per   *)
(* statement of the module body, executed top to bottom.  The stack        *)
(* configuration is the input; the module namespace, the resources         *)
(* registered with the engine and the stack outputs are the state.         *)
(***************************************************************************)
EXTENDS Integers, Sequences, FiniteSets, TLC

\* Largest node count a configuration of the model sets.
MaxSize == 5

\* Attempts the retrying variant of a declaration is allowed (variants only).
MaxRetry == 2

----------------------------------------------------------------------------
\* Configuration: a partial map from keys to raw values.  Pulumi stores every
\* configuration value as a string; the integer keys hold character sequences
\* so that get_int's parse is computed, the string keys hold opaque strings.

IntKeys == {"minClusterSize", "maxClusterSize", "desiredClusterSize"}
StrKeys == {"eksNodeInstanceType", "vpcNetworkCidr", "ssoRoleArn"}
ConfigKeys == IntKeys \cup StrKeys

Digits == <<"0", "1", "2", "3", "4", "5", "6", "7", "8", "9">>

IsDigit(c) == \E i \in 1..10 : Digits[i] = c

DigitVal(c) == (CHOOSE i \in 1..10 : Digits[i] = c) - 1

RECURSIVE DecStr(_)
\* str(n) for n >= 0
DecStr(n) == IF n < 10 THEN <<Digits[n + 1]>>
             ELSE Append(DecStr(n \div 10), Digits[(n % 10) + 1])

RECURSIVE DigitsVal(_)
DigitsVal(s) == IF Len(s) = 0 THEN 0
                ELSE 10 * DigitsVal(SubSeq(s, 1, Len(s) - 1)) + DigitVal(s[Len(s)])

Unsigned(s) == IF Len(s) > 0 /\ s[1] \in {"+", "-"} THEN Tail(s) ELSE s

\* Python's int(s) accepts an optional sign followed by one or more digits
\* (surrounding whitespace and digit-group underscores, which no value of
\* the model contains, aside).
IsIntLiteral(s) == /\ Len(Unsigned(s)) > 0
                   /\ \A i \in 1..Len(Unsigned(s)) : IsDigit(Unsigned(s)[i])

IntOf(s) == IF Len(s) > 0 /\ s[1] = "-" THEN 0 - DigitsVal(Unsigned(s))
            ELSE DigitsVal(Unsigned(s))

\* Canonical decimals, a zero-padded and a signed literal, and two values
\* int() rejects.
IntRaw == {DecStr(n) : n \in 1..MaxSize}
              \cup {<<"0", "6">>, <<"-", "1">>, <<"x">>, <<"3", ".", "5">>}

InstanceTypes == {"t3.medium"}
Cidrs == {"10.0.0.0/16"}
RoleArns == {"arn:aws:iam::111111111111:role/sso-a",
             "arn:aws:iam::111111111111:role/sso-b"}

\* The value a configuration holds under each key it sets.
FullConfig(mn, mx, ds, it, cb, arn) ==
    [k \in ConfigKeys |->
        CASE k = "minClusterSize" -> mn
          [] k = "maxClusterSize" -> mx
          [] k = "desiredClusterSize" -> ds
          [] k = "eksNodeInstanceType" -> it
          [] k = "vpcNetworkCidr" -> cb
          [] OTHER -> arn]

Restrict(f, S) == [k \in S |-> f[k]]

----------------------------------------------------------------------------
\* pulumi.Config: get returns the default when the key is unset, get_int
\* parses the value with int() and raises ConfigTypeError when that fails,
\* require raises ConfigMissingError when the key is unset.

Has(c, k) == k \in DOMAIN c

Get(c, k, default) == IF Has(c, k) THEN c[k] ELSE default

GetIntRaises(c, k) == Has(c, k) /\ ~IsIntLiteral(c[k])

GetInt(c, k, default) == IF Has(c, k) THEN IntOf(c[k]) ELSE default

RequireRaises(c, k) == ~Has(c, k)

Require(c, k) == c[k]

----------------------------------------------------------------------------
\* What the providers hand back: the outputs of the declared resources.

VpcOutputs ==
    {[vpc_id |-> "vpc-a", public_subnet_ids |-> <<"pub-a1", "pub-a2">>,
      private_subnet_ids |-> <<"priv-a1", "priv-a2">>],
     [vpc_id |-> "vpc-b", public_subnet_ids |-> <<"pub-b1">>,
      private_subnet_ids |-> <<"priv-b1">>]}

Kubeconfigs == {"kubeconfig-1", "kubeconfig-2"}

VARIABLES
    cfg,         \* the stack configuration (input, never written)
    pc,          \* the statement about to execute, by source line
    error,       \* the exception that ended evaluation, or "none"
    ns,          \* the module namespace: bound names -> values
    registered,  \* resources registered with the engine, in order
    attempts,    \* constructor calls made, per resource
    exports      \* stack outputs: name -> value

vars == <<cfg, pc, error, ns, registered, attempts, exports>>

Resources == {"eks-vpc", "eks-cluster", "cluster"}

Bind(n, name, v) == [x \in DOMAIN n \cup {name} |-> IF x = name THEN v ELSE n[x]]

Running(line) == pc = line /\ error = "none"

Raise(e) == /\ error' = e
            /\ UNCHANGED <<cfg, pc, ns, registered, attempts, exports>>

Assign(name, v, next) ==
    /\ ns' = Bind(ns, name, v)
    /\ pc' = next
    /\ UNCHANGED <<cfg, error, registered, attempts, exports>>

Init ==
    /\ \E S \in SUBSET ConfigKeys, mn \in IntRaw, mx \in IntRaw, ds \in IntRaw,
          it \in InstanceTypes, cb \in Cidrs, arn \in RoleArns :
          cfg = Restrict(FullConfig(mn, mx, ds, it, cb, arn), S)
    /\ pc = "L9"
    /\ error = "none"
    /\ ns = <<>>
    /\ registered = <<>>
    /\ attempts = [r \in Resources |-> 0]
    /\ exports = <<>>

\* line 9
ResolveMin ==
    /\ Running("L9")
    /\ IF GetIntRaises(cfg, "minClusterSize") THEN Raise("ConfigTypeError")
       ELSE Assign("min_cluster_size", GetInt(cfg, "minClusterSize", 3), "L10")

\* Variant: the upper bound is read from the lower bound's key.
ResolveMaxFromMinKey ==
    /\ Running("L10")
    /\ IF GetIntRaises(cfg, "minClusterSize") THEN Raise("ConfigTypeError")
       ELSE Assign("max_cluster_size", GetInt(cfg, "minClusterSize", 6), "L11")

\* line 10
ResolveMax ==
    /\ Running("L10")
    /\ IF GetIntRaises(cfg, "maxClusterSize") THEN Raise("ConfigTypeError")
       ELSE Assign("max_cluster_size", GetInt(cfg, "maxClusterSize", 6), "L11")

\* line 11
ResolveDesired ==
    /\ Running("L11")
    /\ IF GetIntRaises(cfg, "desiredClusterSize") THEN Raise("ConfigTypeError")
       ELSE Assign("desired_cluster_size",
                   GetInt(cfg, "desiredClusterSize", 3), "L12")

\* line 12
ResolveInstanceType ==
    /\ Running("L12")
    /\ Assign("eks_node_instance_type",
              Get(cfg, "eksNodeInstanceType", "t3.nano"), "L13")

\* Variant: the CIDR is read with require instead of get.
ResolveCidrRequired ==
    /\ Running("L13")
    /\ IF RequireRaises(cfg, "vpcNetworkCidr") THEN Raise("ConfigMissingError")
       ELSE Assign("vpc_network_cidr", Require(cfg, "vpcNetworkCidr"), "L14")

\* line 13
ResolveCidr ==
    /\ Running("L13")
    /\ Assign("vpc_network_cidr", Get(cfg, "vpcNetworkCidr", "10.40.0.0/16"), "L14")

\* Variant: the role is read with get instead of require.
RequireSsoOptional ==
    /\ Running("L14")
    /\ Assign("sso_role_arn", Get(cfg, "ssoRoleArn", ""), "L17")

\* line 14
RequireSso ==
    /\ Running("L14")
    /\ IF RequireRaises(cfg, "ssoRoleArn") THEN Raise("ConfigMissingError")
       ELSE Assign("sso_role_arn", Require(cfg, "ssoRoleArn"), "L17")

----------------------------------------------------------------------------
\* Constructor arguments, as written at each call site.

\* lines 17-19
VpcArgs(n) ==
    [enable_dns_hostnames |-> TRUE,
     cidr_block |-> n["vpc_network_cidr"]]

\* Variant: the grant is narrowed to one namespace.
AccessEntriesNamespaced(arn) ==
    "portaladmin" :>
        [principal_arn |-> arn,
         access_policies |->
             "fullAccess" :>
                 [policy_arn |->
                      "arn:aws:eks::aws:cluster-access-policy/AmazonEKSClusterAdminPolicy",
                  access_scope |-> [type |-> "namespace",
                                    namespaces |-> <<"default">>]],
         type |-> "STANDARD"]

\* lines 41-55
AccessEntries(arn) ==
    "portaladmin" :>
        [principal_arn |-> arn,
         access_policies |->
             "fullAccess" :>
                 [policy_arn |->
                      "arn:aws:eks::aws:cluster-access-policy/AmazonEKSClusterAdminPolicy",
                  access_scope |-> [type |-> "cluster", namespaces |-> <<>>]],
         type |-> "STANDARD"]

\* Variant: the two subnet lists are passed the wrong way round.
ClusterNetworkArgsSwapped(n) ==
    [vpc_id |-> n["eks_vpc"].vpc_id,
     public_subnet_ids |-> n["eks_vpc"].private_subnet_ids,
     private_subnet_ids |-> n["eks_vpc"].public_subnet_ids]

\* lines 24, 28, 30
ClusterNetworkArgs(n) ==
    [vpc_id |-> n["eks_vpc"].vpc_id,
     public_subnet_ids |-> n["eks_vpc"].public_subnet_ids,
     private_subnet_ids |-> n["eks_vpc"].private_subnet_ids]

Min2(a, b) == IF a <= b THEN a ELSE b

Max2(a, b) == IF a >= b THEN a ELSE b

\* Variant: the desired capacity is clamped into [min, max].
ClusterSizeArgsClamped(n) ==
    [instance_type |-> n["eks_node_instance_type"],
     desired_capacity |->
         Max2(n["min_cluster_size"],
              Min2(n["desired_cluster_size"], n["max_cluster_size"])),
     min_size |-> n["min_cluster_size"],
     max_size |-> n["max_cluster_size"]]

\* lines 32-35
ClusterSizeArgs(n) ==
    [instance_type |-> n["eks_node_instance_type"],
     desired_capacity |-> n["desired_cluster_size"],
     min_size |-> n["min_cluster_size"],
     max_size |-> n["max_cluster_size"]]

\* Variant: the endpoint flags of a private cluster.
ClusterExposureArgsPrivate ==
    [authentication_mode |-> "API",
     node_associate_public_ip_address |-> FALSE,
     endpoint_private_access |-> TRUE,
     endpoint_public_access |-> FALSE]

\* lines 26, 37-40
ClusterExposureArgs ==
    [authentication_mode |-> "API",
     node_associate_public_ip_address |-> FALSE,
     endpoint_private_access |-> FALSE,
     endpoint_public_access |-> TRUE]

\* lines 22-56
ClusterArgs(n) ==
    ClusterNetworkArgs(n) @@ ClusterSizeArgs(n) @@ ClusterExposureArgs
        @@ [access_entries |-> AccessEntries(n["sso_role_arn"])]

\* lines 59-60
ProviderArgs(n) == [kubeconfig |-> n["eks_cluster"].kubeconfig]

\* A constructor call that returns: the resource is registered with the
\* engine and bound to its name, and evaluation moves to the next statement.
Declared(var, res, obj, next) ==
    /\ attempts' = [attempts EXCEPT ![res] = @ + 1]
    /\ ns' = Bind(ns, var, obj)
    /\ registered' = Append(registered, res)
    /\ pc' = next
    /\ UNCHANGED <<cfg, error, exports>>

\* A constructor call that raises: nothing catches the exception, so the
\* program ends at this statement.
Failed(res) ==
    /\ attempts' = [attempts EXCEPT ![res] = @ + 1]
    /\ error' = "ProviderError"
    /\ UNCHANGED <<cfg, pc, ns, registered, exports>>

\* Variant: a failed VPC declaration is caught and tried again.
DeclareVpcRetrying ==
    /\ Running("L17")
    /\ \/ \E out \in VpcOutputs :
            Declared("eks_vpc", "eks-vpc",
                     [name |-> "eks-vpc", args |-> VpcArgs(ns),
                      vpc_id |-> out.vpc_id,
                      public_subnet_ids |-> out.public_subnet_ids,
                      private_subnet_ids |-> out.private_subnet_ids], "L22")
       \/ /\ attempts["eks-vpc"] + 1 < MaxRetry
          /\ attempts' = [attempts EXCEPT !["eks-vpc"] = @ + 1]
          /\ UNCHANGED <<cfg, pc, error, ns, registered, exports>>
       \/ /\ attempts["eks-vpc"] + 1 >= MaxRetry
          /\ Failed("eks-vpc")

\* lines 17-19
DeclareVpc ==
    /\ Running("L17")
    /\ \/ \E out \in VpcOutputs :
            Declared("eks_vpc", "eks-vpc",
                     [name |-> "eks-vpc", args |-> VpcArgs(ns),
                      vpc_id |-> out.vpc_id,
                      public_subnet_ids |-> out.public_subnet_ids,
                      private_subnet_ids |-> out.private_subnet_ids], "L22")
       \/ Failed("eks-vpc")

\* Variant: the cluster statement runs again after it has returned.
DeclareClusterRepeated ==
    /\ Running("L22")
    /\ \/ \E kc \in Kubeconfigs :
            Declared("eks_cluster", "eks-cluster",
                     [name |-> "eks-cluster", args |-> ClusterArgs(ns),
                      kubeconfig |-> kc],
                     IF attempts["eks-cluster"] + 1 < MaxRetry THEN "L22" ELSE "L59")
       \/ Failed("eks-cluster")

\* lines 22-56
DeclareCluster ==
    /\ Running("L22")
    /\ \/ \E kc \in Kubeconfigs :
            Declared("eks_cluster", "eks-cluster",
                     [name |-> "eks-cluster", args |-> ClusterArgs(ns),
                      kubeconfig |-> kc], "L59")
       \/ Failed("eks-cluster")

\* lines 59-60
DeclareProvider ==
    /\ Running("L59")
    /\ \/ Declared("cluster", "cluster",
                   [name |-> "cluster", args |-> ProviderArgs(ns)], "L63")
       \/ Failed("cluster")

\* pulumi.export(name, value)
Export(name, v, next) ==
    /\ exports' = Bind(exports, name, v)
    /\ pc' = next
    /\ UNCHANGED <<cfg, error, ns, registered, attempts>>

\* line 63
ExportKubeconfig ==
    /\ Running("L63")
    /\ Export("kubeconfig", ns["eks_cluster"].kubeconfig, "L64")

\* Variant: the second export reuses the first export's name.
ExportVpcIdAsKubeconfig ==
    /\ Running("L64")
    /\ Export("kubeconfig", ns["eks_vpc"].vpc_id, "done")

\* line 64
ExportVpcId ==
    /\ Running("L64")
    /\ Export("vpcId", ns["eks_vpc"].vpc_id, "done")

Next == ResolveMin \/ ResolveMax \/ ResolveDesired \/ ResolveInstanceType
        \/ ResolveCidr \/ RequireSso
        \/ DeclareVpc \/ DeclareCluster \/ DeclareProvider
        \/ ExportKubeconfig \/ ExportVpcId

Spec == Init /\ [][Next]_vars

----------------------------------------------------------------------------
\* Vocabulary of the properties.

Bound(name) == name \in DOMAIN ns

ConfigLines == {"L9", "L10", "L11", "L12", "L13", "L14"}

ConfigErrors == {"ConfigTypeError", "ConfigMissingError"}

NothingDeclared ==
    /\ registered = <<>>
    /\ \A r \in Resources : attempts[r] = 0
    /\ ~Bound("eks_vpc") /\ ~Bound("eks_cluster") /\ ~Bound("cluster")
    /\ DOMAIN exports = {}

\* The integer keys hold integers wherever they are set.
IntKeysParse == \A k \in IntKeys : ~GetIntRaises(cfg, k)

\* The integer key read at a line of the configuration block.
KeyAt(line) == CASE line = "L9" -> "minClusterSize"
                 [] line = "L10" -> "maxClusterSize"
                 [] OTHER -> "desiredClusterSize"

\* The value a configuration gives an integer key, or d when it gives none.
ConfiguredInt(k, d) == IF Has(cfg, k) THEN IntOf(cfg[k]) ELSE d

ConfiguredStr(k, d) == IF Has(cfg, k) THEN cfg[k] ELSE d

DeclarationOrder == <<"eks-vpc", "eks-cluster", "cluster">>

----------------------------------------------------------------------------
\* C1 (as stated): without ssoRoleArn, whatever the other keys hold, a failed
\* evaluation has failed at config.require("ssoRoleArn"), with no resource
\* declared and no output exported.
C1_FailsAtRequire ==
    (~Has(cfg, "ssoRoleArn") /\ error # "none") =>
        /\ pc = "L14" /\ error = "ConfigMissingError"
        /\ NothingDeclared

\* C1 (amended): without ssoRoleArn evaluation never gets past line 14 and
\* declares and exports nothing; it fails at config.require("ssoRoleArn"),
\* unless an integer key holds a non-integer, in which case it fails earlier,
\* at that key's get_int.
C1_MissingSsoFailsBeforeResources ==
    ~Has(cfg, "ssoRoleArn") =>
        /\ pc \in ConfigLines
        /\ NothingDeclared
        /\ ~Bound("sso_role_arn")
        /\ error \in {"none", "ConfigMissingError", "ConfigTypeError"}
        /\ error = "ConfigMissingError" => pc = "L14" /\ IntKeysParse
        /\ error = "ConfigTypeError" =>
               pc \in {"L9", "L10", "L11"} /\ GetIntRaises(cfg, KeyAt(pc))
        /\ (pc = "L14" /\ error = "none") => ENABLED RequireSso

C1_Witness ==
    /\ DOMAIN cfg = ConfigKeys \ {"ssoRoleArn"}
    /\ pc = "L14"
    /\ error = "ConfigMissingError"

\* C2: once the five optional keys are resolved, each key left unset has its
\* default (3, 6, 3, "t3.nano", "10.40.0.0/16") and each key set has the
\* configured value, key by key.
C2_DefaultsPerKey ==
    /\ Bound("min_cluster_size") =>
           /\ ~Has(cfg, "minClusterSize") => ns["min_cluster_size"] = 3
           /\ Has(cfg, "minClusterSize") =>
                  ns["min_cluster_size"] = IntOf(cfg["minClusterSize"])
    /\ Bound("max_cluster_size") =>
           /\ ~Has(cfg, "maxClusterSize") => ns["max_cluster_size"] = 6
           /\ Has(cfg, "maxClusterSize") =>
                  ns["max_cluster_size"] = IntOf(cfg["maxClusterSize"])
    /\ Bound("desired_cluster_size") =>
           /\ ~Has(cfg, "desiredClusterSize") => ns["desired_cluster_size"] = 3
           /\ Has(cfg, "desiredClusterSize") =>
                  ns["desired_cluster_size"] = IntOf(cfg["desiredClusterSize"])
    /\ Bound("eks_node_instance_type") =>
           /\ ~Has(cfg, "eksNodeInstanceType") =>
                  ns["eks_node_instance_type"] = "t3.nano"
           /\ Has(cfg, "eksNodeInstanceType") =>
                  ns["eks_node_instance_type"] = cfg["eksNodeInstanceType"]
    /\ Bound("vpc_network_cidr") =>
           /\ ~Has(cfg, "vpcNetworkCidr") =>
                  ns["vpc_network_cidr"] = "10.40.0.0/16"
           /\ Has(cfg, "vpcNetworkCidr") =>
                  ns["vpc_network_cidr"] = cfg["vpcNetworkCidr"]
    /\ pc \notin {"L9", "L10", "L11", "L12", "L13"} =>
           /\ Bound("min_cluster_size") /\ Bound("max_cluster_size")
           /\ Bound("desired_cluster_size") /\ Bound("eks_node_instance_type")
           /\ Bound("vpc_network_cidr")

\* Some keys set, the others defaulted, in one run.
C2_Witness ==
    /\ pc = "L14"
    /\ DOMAIN cfg = {"minClusterSize", "vpcNetworkCidr"}
    /\ cfg["minClusterSize"] = <<"5">>
    /\ ns["min_cluster_size"] = 5
    /\ ns["max_cluster_size"] = 6
    /\ ns["desired_cluster_size"] = 3
    /\ ns["eks_node_instance_type"] = "t3.nano"
    /\ ns["vpc_network_cidr"] = "10.0.0.0/16"

\* C3: a declared cluster has exactly one access entry, "portaladmin", for the
\* configured ssoRoleArn, with exactly one policy, AmazonEKSClusterAdminPolicy,
\* at cluster scope with no namespaces, whatever the other keys hold.
C3_AdminAccessEntry ==
    Bound("eks_cluster") =>
        LET entries == ns["eks_cluster"].args.access_entries IN
        /\ DOMAIN entries = {"portaladmin"}
        /\ Has(cfg, "ssoRoleArn")
        /\ entries["portaladmin"].principal_arn = cfg["ssoRoleArn"]
        /\ DOMAIN entries["portaladmin"].access_policies = {"fullAccess"}
        /\ LET policy == entries["portaladmin"].access_policies["fullAccess"] IN
           /\ policy.policy_arn =
                  "arn:aws:eks::aws:cluster-access-policy/AmazonEKSClusterAdminPolicy"
           /\ policy.access_scope.type = "cluster"
           /\ policy.access_scope.namespaces = <<>>

C3_Witness ==
    /\ Bound("eks_cluster")
    /\ DOMAIN cfg = ConfigKeys
    /\ cfg["ssoRoleArn"] = "arn:aws:iam::111111111111:role/sso-b"
    /\ ns["eks_cluster"].args.access_entries["portaladmin"].principal_arn =
           "arn:aws:iam::111111111111:role/sso-b"

\* C4: with ssoRoleArn present and integers under the three size keys, in any
\* order relation, the manifest raises no configuration error and a declared
\* cluster carries min_size, max_size and desired_capacity exactly as
\* configured.
C4_SizesNotValidated ==
    (Has(cfg, "ssoRoleArn") /\ IntKeysParse) =>
        /\ error \notin ConfigErrors
        /\ Bound("eks_cluster") =>
               /\ ns["eks_cluster"].args.min_size = ConfiguredInt("minClusterSize", 3)
               /\ ns["eks_cluster"].args.max_size = ConfiguredInt("maxClusterSize", 6)
               /\ ns["eks_cluster"].args.desired_capacity =
                      ConfiguredInt("desiredClusterSize", 3)

\* min=5, max=3, desired=1: inverted bounds and a desired size outside them.
C4_Witness ==
    /\ Bound("eks_cluster")
    /\ Has(cfg, "minClusterSize") /\ cfg["minClusterSize"] = <<"5">>
    /\ Has(cfg, "maxClusterSize") /\ cfg["maxClusterSize"] = <<"3">>
    /\ Has(cfg, "desiredClusterSize") /\ cfg["desiredClusterSize"] = <<"1">>
    /\ ns["eks_cluster"].args.min_size = 5
    /\ ns["eks_cluster"].args.max_size = 3
    /\ ns["eks_cluster"].args.desired_capacity = 1

\* C5 (as stated): with ssoRoleArn present the configuration block never
\* fails, whatever the other five keys are; a configuration error means
\* ssoRoleArn is absent.
C5_OnlyMissingSsoFails ==
    error \in ConfigErrors => ~Has(cfg, "ssoRoleArn")

\* C5 (amended): a configuration error means ssoRoleArn is absent or an
\* integer key holds a non-integer; with ssoRoleArn present and every integer
\* key unset or an integer, for every subset of the other five keys, the
\* configuration block runs through without error to the first declaration.
C5_ConfigFailures ==
    /\ error \in ConfigErrors =>
           \/ ~Has(cfg, "ssoRoleArn")
           \/ \E k \in IntKeys : GetIntRaises(cfg, k)
    /\ (Has(cfg, "ssoRoleArn") /\ IntKeysParse /\ pc \in ConfigLines) =>
           error = "none" /\ ENABLED Next

\* Only the mandatory key is set, and evaluation has reached the VPC.
C5_Witness ==
    /\ DOMAIN cfg = {"ssoRoleArn"}
    /\ pc = "L17"
    /\ error = "none"

\* C6: a completed run has exactly the outputs kubeconfig and vpcId, holding
\* the cluster's kubeconfig and the VPC's vpc_id; nothing is exported before
\* all three resources are declared.
C6_Exports ==
    /\ pc = "done" =>
           /\ DOMAIN exports = {"kubeconfig", "vpcId"}
           /\ exports["kubeconfig"] = ns["eks_cluster"].kubeconfig
           /\ exports["vpcId"] = ns["eks_vpc"].vpc_id
    /\ DOMAIN exports # {} =>
           /\ registered = DeclarationOrder
           /\ Bound("eks_vpc") /\ Bound("eks_cluster") /\ Bound("cluster")

C6_Witness ==
    /\ pc = "done"
    /\ exports["kubeconfig"] = "kubeconfig-2"
    /\ exports["vpcId"] = "vpc-b"

\* C7: resources are registered in the order VPC, cluster, Kubernetes
\* provider, each at most once.
C7_Order ==
    /\ Len(registered) <= 3
    /\ registered = SubSeq(DeclarationOrder, 1, Len(registered))
    /\ \A r \in Resources : attempts[r] <= 1
    /\ Bound("eks_cluster") => Bound("eks_vpc")
    /\ Bound("cluster") => Bound("eks_cluster")

C7_Witness == registered = DeclarationOrder

\* C8: when a declaration raises, evaluation ends there: that declaration was
\* attempted once, the earlier ones once each, no later one at all, nothing
\* is exported and no further step is taken.
C8_ProviderFailureStops ==
    error = "ProviderError" =>
        /\ pc \in {"L17", "L22", "L59"}
        /\ attempts = [r \in Resources |->
                          CASE r = "eks-vpc" -> 1
                            [] r = "eks-cluster" -> IF pc = "L17" THEN 0 ELSE 1
                            [] OTHER -> IF pc = "L59" THEN 1 ELSE 0]
        /\ registered = SubSeq(DeclarationOrder, 1,
                               CASE pc = "L17" -> 0 [] pc = "L22" -> 1 [] OTHER -> 2)
        /\ DOMAIN exports = {}
        /\ ~ENABLED Next

\* The cluster declaration fails after the VPC was declared.
C8_Witness ==
    /\ error = "ProviderError"
    /\ pc = "L22"
    /\ Bound("eks_vpc")

\* C9: the VPC has the resolved CIDR, the cluster has that VPC's id and
\* subnets, the Kubernetes provider has that cluster's kubeconfig, and the
\* exported kubeconfig is the provider's.
C9_Threading ==
    /\ Bound("eks_vpc") =>
           /\ ns["eks_vpc"].args.cidr_block = ns["vpc_network_cidr"]
           /\ ns["eks_vpc"].args.cidr_block =
                  ConfiguredStr("vpcNetworkCidr", "10.40.0.0/16")
    /\ Bound("eks_cluster") =>
           /\ ns["eks_cluster"].args.vpc_id = ns["eks_vpc"].vpc_id
           /\ ns["eks_cluster"].args.public_subnet_ids =
                  ns["eks_vpc"].public_subnet_ids
           /\ ns["eks_cluster"].args.private_subnet_ids =
                  ns["eks_vpc"].private_subnet_ids
    /\ Bound("cluster") =>
           ns["cluster"].args.kubeconfig = ns["eks_cluster"].kubeconfig
    /\ "kubeconfig" \in DOMAIN exports =>
           exports["kubeconfig"] = ns["cluster"].args.kubeconfig

C9_Witness ==
    /\ "kubeconfig" \in DOMAIN exports
    /\ ns["eks_cluster"].args.vpc_id = "vpc-a"
    /\ ns["eks_cluster"].args.private_subnet_ids = <<"priv-a1", "priv-a2">>
    /\ ns["cluster"].args.kubeconfig = "kubeconfig-1"

\* C10: a declared cluster has authentication_mode API, no public IPs on
\* nodes, private endpoint access off, public endpoint access on and a
\* STANDARD access entry, under every configuration.
C10_FixedExposure ==
    Bound("eks_cluster") =>
        LET a == ns["eks_cluster"].args IN
        /\ a.authentication_mode = "API"
        /\ a.node_associate_public_ip_address = FALSE
        /\ a.endpoint_private_access = FALSE
        /\ a.endpoint_public_access = TRUE
        /\ a.access_entries["portaladmin"].type = "STANDARD"

\* Every key set away from its default.
C10_Witness ==
    /\ Bound("eks_cluster")
    /\ DOMAIN cfg = ConfigKeys
    /\ ns["eks_cluster"].args.instance_type = "t3.medium"
    /\ ns["eks_cluster"].args.min_size = 1
    /\ ns["eks_cluster"].args.max_size = 2
    /\ ns["eks_cluster"].args.desired_capacity = 4
    /\ ns["eks_vpc"].args.cidr_block = "10.0.0.0/16"
    /\ ns["eks_cluster"].args.endpoint_public_access = TRUE

====
